---------------------------- MODULE Spec2Model ----------------------------
(***************************************************************************)
(* disk-scanner: Scanner::scan (src/src/scanner.rs) as a state machine.    *)
(*                                                                         *)
(* The walk is jwalk's WalkDir consumed through the standard Iterator:     *)
(* `walker.into_iter().for_each(closure)`.  The pool of num_threads        *)
(* threads reads directories; the closure itself is run by the thread      *)
(* that calls for_each, one item after the other.  The threads that run    *)
(* the closure are the set Consumers; the order in which the iterator      *)
(* hands out items is any order that yields a directory before its         *)
(* children.  Every lock of the closure is a real lock of the model:       *)
(* try_lock succeeds exactly when the mutex is free.                       *)
(*                                                                         *)
(* Option/Result values are sequences: <<>> is None/Err, <<v>> is          *)
(* Some(v)/Ok(v).  Paths are sequences of components.                      *)
(***************************************************************************)
EXTENDS Integers, Sequences, FiniteSets, Bags, TLC

\* ------------------------------------------------------------- bounds
\* largest size a stat call reports
MaxSize == 2
\* largest worker count of the configuration
MaxThreads == 2
\* largest --depth the caller filters by
MaxDepthArg == 3
\* largest --count the caller asks top_n for
MaxCount == 3

\* ------------------------------------------------------------ universe
\* the canonical scan root
Root == <<"r">>

\* the paths that may exist below the root
Paths ==
  { <<"r", "a">>, <<"r", "a", "c">>, <<"r", "a", "e">>, <<"r", "a", "c", "d">> }

AllPaths == Paths \cup {Root}

\* what a path can be: nothing, a directory, a directory whose listing is
\* refused ("denied"), a file, a symlink to a directory, or an entry whose
\* own directory record cannot be read ("err")
Kinds == {"absent", "dir", "denied", "file", "link", "err"}

\* what size_on_disk() / metadata().len() can answer: Err or Ok(n)
SizeResults == {<<>>} \cup { <<n>> : n \in 0..MaxSize }

\* Path::parent(): None for the empty path, else the path without its last
\* component
Parent(p) == IF p = <<>> THEN <<>> ELSE << SubSeq(p, 1, Len(p) - 1) >>

\* ---------------------------------------------------------------- names
\* A file name is kept as the UTF-8 layout of its text: the sequence of the
\* byte widths of its characters.  The components "a", "c", "e", ... of the
\* model's paths stand for names of the three layouts below.

\* the width the progress message truncates the directory name to
MaxDirNameLen == 20

Repeat(w, n) == [k \in 1..n |-> w]

\* a name of one ASCII character
ShortName == Repeat(1, 1)

\* an ASCII name one byte longer than MaxDirNameLen
LongAsciiName == Repeat(1, MaxDirNameLen + 1)

\* a name of two-byte characters (Cyrillic, say) longer than MaxDirNameLen
LongWideName == Repeat(2, (MaxDirNameLen \div 2) + 1)

\* Path::file_name() of a non-empty path: "c" stands for a long ASCII name,
\* "e" for a long name of two-byte characters, the others for short names
FileName(p) ==
  CASE p[Len(p)] = "c" -> LongAsciiName
    [] p[Len(p)] = "e" -> LongWideName
    [] OTHER -> ShortName

\* String::from("...")
Dots == Repeat(1, 3)

RECURSIVE ByteLen(_)
\* str::len(): the length in bytes
ByteLen(s) == IF s = <<>> THEN 0 ELSE Head(s) + ByteLen(Tail(s))

\* the characters that lie wholly in the first n bytes
RECURSIVE CharsWithin(_, _)
CharsWithin(s, n) ==
  IF s = <<>> \/ Head(s) > n THEN <<>>
  ELSE <<Head(s)>> \o CharsWithin(Tail(s), n - Head(s))

\* str::is_char_boundary
IsCharBoundary(s, n) == ByteLen(CharsWithin(s, n)) = n

\* a subtraction that does not saturate
unchecked_sub(a, b) == a - b

\* u64::saturating_sub, usize::saturating_sub
saturating_sub(a, b) == IF a >= b THEN a - b ELSE 0

\* truncate_str: Ok(text), or Err when the slice `&s[..max_len - 3]` ends
\* inside a character and the thread panics
truncate_str(s, max_len) ==
  IF ByteLen(s) <= max_len THEN <<s>>
  ELSE IF IsCharBoundary(s, saturating_sub(max_len, 3))
         THEN << CharsWithin(s, saturating_sub(max_len, 3)) \o Dots >>
         ELSE <<>>

\* Path::starts_with
IsPrefix(a, b) == Len(a) <= Len(b) /\ SubSeq(b, 1, Len(a)) = a

\* a tree: entries exist only inside directories, or behind a symlink to a
\* directory (what following the link would show)
WellFormed(f) ==
  \A p \in Paths :
    f[p] # "absent" =>
      \/ Parent(p)[1] = Root
      \/ f[Parent(p)[1]] \in {"dir", "link"}

Trees == { f \in [Paths -> Kinds] : WellFormed(f) }

EmptyTree == [p \in Paths |-> "absent"]

\* --------------------------------------------------------------- state
VARIABLES
  fs,             \* the file system below the root: path -> kind
  root_access,    \* "ok", "unreadable" (resolves, cannot be read), "unresolvable"
  num_threads,    \* Scanner.num_threads, resolved
  include_files,  \* Scanner.include_files
  measured,       \* path -> what get_file_size answered for it (<<>>: not asked yet)
  pc,             \* position of scan()
  yielded,        \* the items the iterator has handed out
  tpc,            \* position of each closure invocation
  item,           \* the entry each closure invocation works on
  files_scanned, dirs_scanned, total_size, error_count,   \* the atomics
  current_dir,    \* Mutex<String>
  lock,           \* mutex -> its holder (<<>>: free)
  entries,        \* Mutex<Vec<ScannedEntry>>
  pb_message,     \* the last progress snapshot pushed to the progress bar
  file_count, dir_count, scanned_size,   \* the locals read after the walk
  dir_sizes,      \* HashMap<PathBuf, u64>
  result,         \* what scan() returns: <<>> until then
  prev,           \* the summary of an earlier scan of the same tree
  unsized,        \* the files for which neither size call answered
  shown,          \* the slice top_n handed out: <<>> while none is borrowed
  called          \* the last method called on the result, and the result before it

vars ==
  << fs, root_access, num_threads, include_files, measured, unsized, pc,
     yielded, tpc, item, files_scanned, dirs_scanned, total_size, error_count,
     current_dir, lock, entries, pb_message, file_count, dir_count,
     scanned_size, dir_sizes, result, prev, shown, called >>

\* the closure run by the pool's threads as well
ParallelConsumers == {"main", "pool"}

\* the threads that run the for_each closure: the caller of for_each
Consumers == {"main"}

Mutexes == {"entries", "last_update", "current_dir"}

\* the closure's locals: path, is_dir, depth and, for a file, its size
Locals(i, size) ==
  [path |-> i.path, is_dir |-> i.is_dir, depth |-> i.depth, size |-> size]

NoItem == [path |-> <<>>, is_dir |-> FALSE, depth |-> 0, size |-> 0]

NoMeasure == [p \in AllPaths |-> <<>>]

\* the state scan() builds before the walk starts
FreshScan ==
  /\ pc = "start"
  /\ yielded = {}
  /\ tpc = [t \in Consumers |-> "idle"]
  /\ item = [t \in Consumers |-> NoItem]
  /\ files_scanned = 0
  /\ dirs_scanned = 0
  /\ total_size = 0
  /\ error_count = 0
  /\ current_dir = Dots
  /\ lock = [m \in Mutexes |-> <<>>]
  /\ entries = <<>>
  /\ pb_message = <<>>
  /\ file_count = 0
  /\ dir_count = 0
  /\ scanned_size = 0
  /\ dir_sizes = <<>>
  /\ result = <<>>

Init ==
  /\ root_access \in {"ok", "unreadable", "unresolvable"}
  /\ fs \in (IF root_access = "ok" THEN Trees ELSE {EmptyTree})
  /\ num_threads \in 1..MaxThreads
  /\ include_files \in BOOLEAN
  /\ measured = NoMeasure
  /\ prev = <<>>
  /\ unsized = {}
  /\ shown = <<>>
  /\ called = <<>>
  /\ FreshScan


\* ------------------------------------------------------------ the walk
\* entry.depth(): the number of components below the root
Depth(p) == Len(p) - Len(Root)

OkItem(p, d) == [ok |-> TRUE, path |-> p, is_dir |-> d, depth |-> Depth(p)]

ErrItem(p) == [ok |-> FALSE, path |-> p, is_dir |-> FALSE, depth |-> Depth(p)]

\* What the iterator can hand out for path p.  follow_links(false): a
\* symlink is an entry that is no directory.  An entry whose record cannot
\* be read is an Err item.  A directory whose listing is refused is handed
\* out as Ok(entry), like any directory: jwalk keeps the error of the
\* listing in the entry (read_children_error) and yields no children.  A
\* root that resolves but cannot be read is handed out in that way, or, if
\* its metadata cannot be read either, as an Err item.
WalkItems(p) ==
  IF p = Root
    THEN IF root_access = "ok"
           THEN {OkItem(p, TRUE)}
           ELSE {OkItem(p, TRUE), ErrItem(p)}
    ELSE IF fs[p] = "err" THEN {ErrItem(p)}
         ELSE {OkItem(p, fs[p] \in {"dir", "denied"})}

YieldedPaths == { i.path : i \in yielded }

\* the iterator descends into the directories it handed out and could list,
\* and only them
Descended(p) ==
  /\ OkItem(p, TRUE) \in yielded
  /\ IF p = Root THEN root_access = "ok" ELSE fs[p] = "dir"

\* an iterator that does not remember what it handed out
CanYieldAgain(p) ==
  \/ p = Root
  \/ /\ p \in Paths
     /\ fs[p] # "absent"
     /\ Descended(Parent(p)[1])

\* the iterator hands out every entry once, a directory before its children
CanYield(p) ==
  /\ p \notin YieldedPaths
  /\ \/ p = Root
     \/ /\ p \in Paths
        /\ fs[p] # "absent"
        /\ Descended(Parent(p)[1])

Exhausted == \A p \in AllPaths : ~CanYield(p)

\* Mutex::try_lock: Ok exactly when no one holds the mutex
TryLock(m) == lock[m] = <<>>

\* a store in the place of the add
fetch_store(v, n) == n

\* AtomicU64::fetch_add
fetch_add(v, n) == v + n

\* Option::unwrap_or
UnwrapOr(o, d) == IF o = <<>> THEN d ELSE o[1]

\* get_file_size: size_on_disk().ok().or_else(|| metadata().ok().map(len))
get_file_size(disk, len) == IF disk # <<>> THEN disk ELSE len

\* scan(): root.canonicalize()?  and the set-up before the walk
Canonicalize ==
  /\ pc = "start"
  /\ pc' = IF root_access = "unresolvable" THEN "failed" ELSE "walk"
  /\ UNCHANGED << fs, root_access, num_threads, include_files, measured,
                  unsized,
                  yielded, tpc, item, files_scanned, dirs_scanned, total_size,
                  error_count, current_dir, lock, entries, pb_message,
                  file_count, dir_count, scanned_size, dir_sizes, result, prev,
                  shown, called >>

\* the closure is entered with an Err item: error_count += 1
TakeErr(t, i) ==
  /\ ~i.ok
  /\ error_count' = fetch_add(error_count, 1)
  /\ UNCHANGED << tpc, item, files_scanned, dirs_scanned, total_size, measured,
                  unsized >>

\* the closure is entered with a directory: dirs_scanned += 1
TakeDir(t, i) ==
  /\ i.ok /\ i.is_dir
  /\ dirs_scanned' = fetch_add(dirs_scanned, 1)
  /\ tpc' = [tpc EXCEPT ![t] = "setdir"]
  /\ item' = [item EXCEPT ![t] = Locals(i, 0)]
  /\ UNCHANGED << files_scanned, total_size, error_count, measured, unsized >>

\* a closure that takes a file without a size for an error: it is counted
\* in error_count and in nothing else, and is not collected
TakeFileStrict(t, i) ==
  /\ i.ok /\ ~i.is_dir
  /\ \E disk \in SizeResults, len \in SizeResults :
       LET got == get_file_size(disk, len)
           size == UnwrapOr(got, 0) IN
         /\ measured[i.path] \in {<<>>, <<size>>}
         /\ measured[i.path] # <<>> => (i.path \in unsized <=> got = <<>>)
         /\ measured' = [measured EXCEPT ![i.path] = <<size>>]
         /\ IF got = <<>>
              THEN /\ unsized' = unsized \cup {i.path}
                   /\ error_count' = fetch_add(error_count, 1)
                   /\ UNCHANGED << files_scanned, total_size, item, tpc >>
              ELSE /\ files_scanned' = fetch_add(files_scanned, 1)
                   /\ total_size' = fetch_add(total_size, size)
                   /\ item' = [item EXCEPT ![t] = Locals(i, size)]
                   /\ tpc' = [tpc EXCEPT ![t] = "push"]
                   /\ UNCHANGED << unsized, error_count >>
  /\ UNCHANGED dirs_scanned

\* the closure is entered with anything else: files_scanned += 1, the size
\* is measured (the same stat answers as in an earlier scan of the tree)
\* and added to total_size
TakeFile(t, i) ==
  /\ i.ok /\ ~i.is_dir
  /\ \E disk \in SizeResults, len \in SizeResults :
       LET size == UnwrapOr(get_file_size(disk, len), 0) IN
         /\ measured[i.path] \in {<<>>, <<size>>}
         /\ measured[i.path] # <<>> =>
              (i.path \in unsized <=> (disk = <<>> /\ len = <<>>))
         /\ measured' = [measured EXCEPT ![i.path] = <<size>>]
         /\ unsized' = IF disk = <<>> /\ len = <<>>
                         THEN unsized \cup {i.path}
                         ELSE unsized
         /\ files_scanned' = fetch_add(files_scanned, 1)
         /\ total_size' = fetch_add(total_size, size)
         /\ item' = [item EXCEPT ![t] = Locals(i, size)]
  /\ tpc' = [tpc EXCEPT ![t] = "push"]
  /\ UNCHANGED << dirs_scanned, error_count >>

\* for_each hands the next item to the closure
TakeEntry(t) ==
  /\ pc = "walk"
  /\ tpc[t] = "idle"
  /\ \E p \in AllPaths :
       /\ CanYield(p)
       /\ \E i \in WalkItems(p) :
            /\ yielded' = yielded \cup {i}
            /\ \/ TakeErr(t, i)
               \/ TakeDir(t, i)
               \/ TakeFile(t, i)
  /\ UNCHANGED << fs, root_access, num_threads, include_files, pc, current_dir,
                  lock, entries, pb_message, file_count, dir_count,
                  scanned_size, dir_sizes, result, prev,
                  shown, called >>


\* a message of the progress bar: its text and the values formatted into it
Message(text, files, dirs, bytes, dir) ==
  [text |-> text, files |-> files, dirs |-> dirs, bytes |-> bytes, dir |-> dir]

\* what the closure leaves alone once it has its item
ClosureFrame ==
  UNCHANGED << fs, root_access, num_threads, include_files, measured,
                  unsized,
               pc,
               yielded, files_scanned, dirs_scanned, total_size, error_count,
               file_count, dir_count, scanned_size, dir_sizes, result, prev,
                  shown, called >>

\* ScannedEntry { path, size, is_dir, depth }
ScannedEntry(l) ==
  [path |-> l.path, size |-> l.size, is_dir |-> l.is_dir, depth |-> l.depth]

\* every directory pushed, the root as well
AfterSetDirAlways(l) == "push"

\* where a directory goes after the current_dir update: `if depth > 0`
AfterSetDir(l) == IF l.depth > 0 THEN "push" ELSE "progress"

\* current_dir.try_lock(): on Ok the name of the directory is stored; on
\* Err the update is skipped
SetDirTry(t) ==
  /\ tpc[t] = "setdir"
  /\ IF TryLock("current_dir")
       THEN /\ lock' = [lock EXCEPT !["current_dir"] = <<t>>]
            /\ current_dir' = FileName(item[t].path)
            /\ tpc' = [tpc EXCEPT ![t] = "setdir_held"]
       ELSE /\ tpc' = [tpc EXCEPT ![t] = AfterSetDir(item[t])]
            /\ UNCHANGED << lock, current_dir >>
  /\ UNCHANGED << item, entries, pb_message >>
  /\ ClosureFrame

\* a guard of current_dir that is still alive when the closure goes on
SetDirKeep(t) ==
  /\ tpc[t] = "setdir_held"
  /\ tpc' = [tpc EXCEPT ![t] = AfterSetDir(item[t])]
  /\ UNCHANGED << lock, item, current_dir, entries, pb_message >>
  /\ ClosureFrame

\* the guard of current_dir is dropped
SetDirUnlock(t) ==
  /\ tpc[t] = "setdir_held"
  /\ lock' = [lock EXCEPT !["current_dir"] = <<>>]
  /\ tpc' = [tpc EXCEPT ![t] = AfterSetDir(item[t])]
  /\ UNCHANGED << item, current_dir, entries, pb_message >>
  /\ ClosureFrame

\* entries.try_lock(): on Ok the entry is pushed; on Err it is not
PushTry(t) ==
  /\ tpc[t] = "push"
  /\ IF TryLock("entries")
       THEN /\ lock' = [lock EXCEPT !["entries"] = <<t>>]
            /\ entries' = Append(entries, ScannedEntry(item[t]))
            /\ tpc' = [tpc EXCEPT ![t] = "push_held"]
       ELSE /\ tpc' = [tpc EXCEPT ![t] = "progress"]
            /\ UNCHANGED << lock, entries >>
  /\ UNCHANGED << item, current_dir, pb_message >>
  /\ ClosureFrame

\* the guard of entries is dropped
PushUnlock(t) ==
  /\ tpc[t] = "push_held"
  /\ lock' = [lock EXCEPT !["entries"] = <<>>]
  /\ tpc' = [tpc EXCEPT ![t] = "progress"]
  /\ UNCHANGED << item, current_dir, entries, pb_message >>
  /\ ClosureFrame

\* last_update.try_lock() and the throttle: when the lock is free and 50 ms
\* have elapsed the closure goes on to report, holding last_update;
\* otherwise it returns
ProgressTry(t) ==
  /\ tpc[t] = "progress"
  /\ \E elapsed \in BOOLEAN :
       IF TryLock("last_update") /\ elapsed
         THEN /\ lock' = [lock EXCEPT !["last_update"] = <<t>>]
              /\ tpc' = [tpc EXCEPT ![t] = "report"]
              /\ item' = item
         ELSE /\ tpc' = [tpc EXCEPT ![t] = "idle"]
              /\ item' = [item EXCEPT ![t] = NoItem]
              /\ lock' = lock
  /\ UNCHANGED << current_dir, entries, pb_message >>
  /\ ClosureFrame

\* the snapshot: the counters are loaded, current_dir.lock() waits for the
\* mutex, the directory name is truncated for the message, the message is
\* set, and the guard of last_update is dropped.  A panic of truncate_str
\* unwinds out of for_each and out of scan().
Report(t) ==
  /\ tpc[t] = "report"
  /\ lock["current_dir"] = <<>>
  /\ LET name == truncate_str(current_dir, MaxDirNameLen) IN
       IF name = <<>>
         THEN /\ pc' = "panicked"
              /\ tpc' = [tpc EXCEPT ![t] = "panicked"]
              /\ UNCHANGED << pb_message, lock, item >>
         ELSE /\ pb_message' = << Message("Scanning", files_scanned, dirs_scanned,
                                          total_size, name[1]) >>
              /\ lock' = [lock EXCEPT !["last_update"] = <<>>]
              /\ tpc' = [tpc EXCEPT ![t] = "idle"]
              /\ item' = [item EXCEPT ![t] = NoItem]
              /\ pc' = pc
  /\ UNCHANGED << fs, root_access, num_threads, include_files, measured,
                  unsized,
                  yielded, files_scanned, dirs_scanned, total_size, error_count,
                  current_dir, entries, file_count, dir_count, scanned_size,
                  dir_sizes, result, prev,
                  shown, called >>

\* a walk taken to be over as soon as the iterator is exhausted
WalkExhausted == Exhausted

\* for_each returns when the iterator is exhausted and no closure runs
WalkFinished ==
  /\ Exhausted
  /\ \A t \in Consumers : tpc[t] = "idle"

\* after the walk: the counters are loaded into locals and the progress
\* bar says "Calculating directory sizes..."
LoadCounters ==
  /\ pc = "walk"
  /\ WalkFinished
  /\ file_count' = files_scanned
  /\ dir_count' = dirs_scanned
  /\ scanned_size' = total_size
  /\ pb_message' = << Message("Calculating", files_scanned, 0, total_size, <<>>) >>
  /\ pc' = "seed"
  /\ UNCHANGED << fs, root_access, num_threads, include_files, measured,
                  unsized,
                  yielded, tpc, item, files_scanned, dirs_scanned, total_size,
                  error_count, current_dir, lock, entries, dir_sizes, result,
                  prev, shown, called >>


\* ------------------------------------------------------ the aggregation
\* a map that gets a key only where a file has its parent
DirKeysOfFiles(es) ==
  { es[k].path : k \in { j \in 1..Len(es) :
      es[j].is_dir /\ \E f \in 1..Len(es) :
                        ~es[f].is_dir /\ Parent(es[f].path) = <<es[j].path>> } }

\* the paths of the directory entries: the keys dir_sizes is seeded with
DirKeys(es) == { es[k].path : k \in { j \in 1..Len(es) : es[j].is_dir } }

\* all_entries.iter().filter(|e| !e.is_dir)
FileEntries(es) == SelectSeq(es, LAMBDA e : ~e.is_dir)

\* `entries.lock().unwrap()` (held to the end of scan) and the first pass:
\* every directory entry gets a zero
SeedDirs ==
  /\ pc = "seed"
  /\ lock["entries"] = <<>>
  /\ lock' = [lock EXCEPT !["entries"] = <<"main">>]
  /\ dir_sizes' = [p \in DirKeys(entries) |-> 0]
  /\ pc' = "propagate"
  /\ UNCHANGED << fs, root_access, num_threads, include_files, measured,
                  unsized,
                  yielded, tpc, item, files_scanned, dirs_scanned, total_size,
                  error_count, current_dir, entries, pb_message, file_count,
                  dir_count, scanned_size, result, prev,
                  shown, called >>

\* the size added to the direct parent only
WalkUpParentOnly(ds, current, size) ==
  IF current # <<>> /\ current[1] \in DOMAIN ds
    THEN [ds EXCEPT ![current[1]] = @ + size]
    ELSE ds

\* a loop that breaks one directory below the root
RECURSIVE WalkUpBelowRoot(_, _, _)
WalkUpBelowRoot(ds, current, size) ==
  IF current = <<>> \/ current[1] = Root \/ Parent(current[1]) = <<Root>> THEN ds
  ELSE LET parent == current[1]
           ds2 == IF parent \in DOMAIN ds
                    THEN [ds EXCEPT ![parent] = @ + size]
                    ELSE ds
       IN  WalkUpBelowRoot(ds2, Parent(parent), size)

\* the `while let Some(parent) = current` loop for one file: the size is
\* added to every ancestor that is a key, up to and including the root
RECURSIVE WalkUp(_, _, _)
WalkUp(ds, current, size) ==
  IF current = <<>> THEN ds
  ELSE LET parent == current[1]
           ds2 == IF parent \in DOMAIN ds
                    THEN [ds EXCEPT ![parent] = @ + size]
                    ELSE ds
       IN  IF parent = Root THEN ds2 ELSE WalkUp(ds2, Parent(parent), size)

\* a loop that leaves out the last file
RECURSIVE PropagateButLast(_, _)
PropagateButLast(ds, files) ==
  IF Len(files) <= 1 THEN ds
  ELSE PropagateButLast(WalkUp(ds, Parent(Head(files).path), Head(files).size),
                        Tail(files))

\* a loop that stops after its first file
PropagateFirst(ds, files) ==
  IF files = <<>> THEN ds
  ELSE WalkUp(ds, Parent(Head(files).path), Head(files).size)

\* the loop over file_entries, in their order
RECURSIVE PropagateAll(_, _)
PropagateAll(ds, files) ==
  IF files = <<>> THEN ds
  ELSE PropagateAll(WalkUp(ds, Parent(Head(files).path), Head(files).size),
                    Tail(files))

\* the second pass
Propagate ==
  /\ pc = "propagate"
  /\ dir_sizes' = PropagateAll(dir_sizes, FileEntries(entries))
  /\ pc' = "build"
  /\ UNCHANGED << fs, root_access, num_threads, include_files, measured,
                  unsized,
                  yielded, tpc, item, files_scanned, dirs_scanned, total_size,
                  error_count, current_dir, lock, entries, pb_message,
                  file_count, dir_count, scanned_size, result, prev,
                  shown, called >>

\* ------------------------------------------------------------ the result
\* Node::new
Node(path, size, is_dir, depth) ==
  [path |-> path, size |-> size, is_dir |-> is_dir, depth |-> depth]

\* the components of the whole path counted
StripDepthAbsolute(path) == Len(path)

\* path.strip_prefix(&root).map(|p| p.components().count()).unwrap_or(0)
StripDepth(path) == IF IsPrefix(Root, path) THEN Len(path) - Len(Root) ELSE 0

\* the orders in which a HashMap can hand out its keys
KeyOrders(S) ==
  { o \in [1..Cardinality(S) -> S] : \A i, j \in DOMAIN o : o[i] = o[j] => i = j }

\* `for (path, size) in dir_sizes`: one directory node per key
DirNodes(ds, order) ==
  [k \in DOMAIN order |-> Node(order[k], ds[order[k]], TRUE, StripDepth(order[k]))]

\* the file nodes built whatever include_files says
FileNodesAlways(es, include) ==
  LET fe == FileEntries(es) IN
    [k \in DOMAIN fe |-> Node(fe[k].path, fe[k].size, FALSE, fe[k].depth)]

\* `if self.include_files`: one file node per file entry, in entry order
FileNodes(es, include) ==
  IF include
    THEN LET fe == FileEntries(es) IN
           [k \in DOMAIN fe |-> Node(fe[k].path, fe[k].size, FALSE, fe[k].depth)]
    ELSE <<>>

\* the ScanResult is built and returned; the guard of entries is dropped
BuildResult ==
  /\ pc = "build"
  /\ \E order \in KeyOrders(DOMAIN dir_sizes) :
       result' = << [ nodes |-> DirNodes(dir_sizes, order)
                               \o FileNodes(entries, include_files),
                      file_count |-> file_count,
                      dir_count |-> saturating_sub(dir_count, 1),
                      total_size |-> scanned_size,
                      error_count |-> error_count ] >>
  /\ lock' = [lock EXCEPT !["entries"] = <<>>]
  /\ pc' = "done"
  /\ UNCHANGED << fs, root_access, num_threads, include_files, measured,
                  unsized,
                  yielded, tpc, item, files_scanned, dirs_scanned, total_size,
                  error_count, current_dir, entries, pb_message, file_count,
                  dir_count, scanned_size, dir_sizes, prev, shown, called >>

\* ------------------------------------------------------- a second scan
\* the bag of (path, size) pairs of a node sequence
RECURSIVE PairBag(_)
PairBag(nodes) ==
  IF nodes = <<>> THEN EmptyBag
  ELSE PairBag(Tail(nodes)) (+) SetToBag({ << Head(nodes).path, Head(nodes).size >> })

\* what two scans of one tree are compared on
Summary(r) ==
  [ file_count |-> r.file_count, dir_count |-> r.dir_count,
    total_size |-> r.total_size, pairs |-> PairBag(r.nodes) ]

\* The caller scans the same, unchanged tree again with a Scanner that
\* differs in the worker count only.
Rescan ==
  /\ pc = "done"
  /\ prev = <<>>
  /\ prev' = << [summary |-> Summary(result[1]), threads |-> num_threads] >>
  /\ num_threads' \in 1..MaxThreads
  /\ pc' = "start"
  /\ yielded' = {}
  /\ tpc' = [t \in Consumers |-> "idle"]
  /\ item' = [t \in Consumers |-> NoItem]
  /\ files_scanned' = 0
  /\ dirs_scanned' = 0
  /\ total_size' = 0
  /\ error_count' = 0
  /\ current_dir' = Dots
  /\ lock' = [m \in Mutexes |-> <<>>]
  /\ entries' = <<>>
  /\ pb_message' = <<>>
  /\ file_count' = 0
  /\ dir_count' = 0
  /\ scanned_size' = 0
  /\ dir_sizes' = <<>>
  /\ result' = <<>>
  /\ UNCHANGED << fs, root_access, include_files, measured, unsized, shown,
                  called >>

\* the bag of (path, size) pairs of the directory nodes
RECURSIVE DirPairs(_)
DirPairs(nodes) ==
  IF nodes = <<>> THEN EmptyBag
  ELSE IF Head(nodes).is_dir
         THEN DirPairs(Tail(nodes))
                (+) SetToBag({ << Head(nodes).path, Head(nodes).size >> })
         ELSE DirPairs(Tail(nodes))

\* The caller scans the same, unchanged tree again with a Scanner that
\* differs in include_files only (Scanner::include_files(!include)).
RescanWithFiles ==
  /\ pc = "done"
  /\ prev = <<>>
  /\ prev' = << [ file_count |-> result[1].file_count,
                  total_size |-> result[1].total_size,
                  dirs |-> DirPairs(result[1].nodes),
                  files |-> include_files ] >>
  /\ include_files' = ~include_files
  /\ pc' = "start"
  /\ yielded' = {}
  /\ tpc' = [t \in Consumers |-> "idle"]
  /\ item' = [t \in Consumers |-> NoItem]
  /\ files_scanned' = 0
  /\ dirs_scanned' = 0
  /\ total_size' = 0
  /\ error_count' = 0
  /\ current_dir' = Dots
  /\ lock' = [m \in Mutexes |-> <<>>]
  /\ entries' = <<>>
  /\ pb_message' = <<>>
  /\ file_count' = 0
  /\ dir_count' = 0
  /\ scanned_size' = 0
  /\ dir_sizes' = <<>>
  /\ result' = <<>>
  /\ UNCHANGED << fs, root_access, num_threads, measured, unsized, shown,
                  called >>

\* ------------------------------------------- the methods of ScanResult
\* a comparator that also puts a node before the earlier nodes of its size
by_size_desc_or_equal(a, b) == b.size <= a.size

\* `|a, b| b.size.cmp(&a.size)` is Less: a goes before b when a is larger
by_size_desc(a, b) == b.size < a.size

\* x is put into a sorted sequence in front of the first node it goes
\* before, and behind every other: the order of equal nodes is kept
RECURSIVE Insert(_, _)
Insert(x, s) ==
  IF s = <<>> THEN <<x>>
  ELSE IF by_size_desc(x, Head(s)) THEN <<x>> \o s
       ELSE <<Head(s)>> \o Insert(x, Tail(s))

\* slice::sort_by with that comparator: a stable sort
RECURSIVE sort_by(_)
sort_by(ns) ==
  IF ns = <<>> THEN <<>>
  ELSE Insert(ns[Len(ns)], sort_by(SubSeq(ns, 1, Len(ns) - 1)))

\* a retain that drops the nodes at max_depth as well
RECURSIVE RetainBelowDepth(_, _)
RetainBelowDepth(ns, max_depth) ==
  IF ns = <<>> THEN <<>>
  ELSE (IF Head(ns).depth < max_depth THEN <<Head(ns)>> ELSE <<>>)
         \o RetainBelowDepth(Tail(ns), max_depth)

\* nodes.retain(|node| node.depth <= max_depth)
RECURSIVE RetainDepth(_, _)
RetainDepth(ns, max_depth) ==
  IF ns = <<>> THEN <<>>
  ELSE (IF Head(ns).depth <= max_depth THEN <<Head(ns)>> ELSE <<>>)
         \o RetainDepth(Tail(ns), max_depth)

\* a retain that keeps the files
RECURSIVE RetainFiles(_)
RetainFiles(ns) ==
  IF ns = <<>> THEN <<>>
  ELSE (IF ~Head(ns).is_dir THEN <<Head(ns)>> ELSE <<>>) \o RetainFiles(Tail(ns))

\* nodes.retain(|node| node.is_dir)
RECURSIVE RetainDirs(_)
RetainDirs(ns) ==
  IF ns = <<>> THEN <<>>
  ELSE (IF Head(ns).is_dir THEN <<Head(ns)>> ELSE <<>>) \o RetainDirs(Tail(ns))

\* std::cmp::min
Min(a, b) == IF a <= b THEN a ELSE b

\* ScanResult::sort_by_size_desc(&mut self)
sort_by_size_desc(r) == [r EXCEPT !.nodes = sort_by(@)]

\* ScanResult::top_n(&self, n): &self.nodes[..min(n, len)]
top_n(r, n) == SubSeq(r.nodes, 1, Min(n, Len(r.nodes)))

\* ScanResult::filter_by_depth(&mut self, max_depth)
filter_by_depth(r, max_depth) == [r EXCEPT !.nodes = RetainDepth(@, max_depth)]

\* a filter that also takes the dropped files out of file_count
filter_dirs_only_recount(r) ==
  [r EXCEPT !.nodes = RetainDirs(@),
            !.file_count = saturating_sub(@, Len(RetainFiles(r.nodes)))]

\* ScanResult::filter_dirs_only(&mut self)
filter_dirs_only(r) == [r EXCEPT !.nodes = RetainDirs(@)]

\* the record of a call: the method, its argument, the result before it
Call(op, arg) == << [op |-> op, arg |-> arg, before |-> result[1]] >>

\* what a method of the result leaves alone: all of the scan
ResultFrame ==
  UNCHANGED << fs, root_access, num_threads, include_files, measured, unsized,
               pc, yielded, tpc, item, files_scanned, dirs_scanned, total_size,
               error_count, current_dir, lock, entries, pb_message, file_count,
               dir_count, scanned_size, dir_sizes, prev >>

\* the caller sorts the result it was given; a slice borrowed from top_n
\* is dead before a `&mut self` method runs
CallSort ==
  /\ pc = "done"
  /\ result' = << sort_by_size_desc(result[1]) >>
  /\ called' = Call("sort_by_size_desc", 0)
  /\ shown' = <<>>
  /\ ResultFrame

\* the caller filters by a depth
CallFilterByDepth ==
  /\ pc = "done"
  /\ \E max_depth \in 0..MaxDepthArg :
       /\ result' = << filter_by_depth(result[1], max_depth) >>
       /\ called' = Call("filter_by_depth", max_depth)
  /\ shown' = <<>>
  /\ ResultFrame

\* the caller drops the files
CallFilterDirsOnly ==
  /\ pc = "done"
  /\ result' = << filter_dirs_only(result[1]) >>
  /\ called' = Call("filter_dirs_only", 0)
  /\ shown' = <<>>
  /\ ResultFrame

\* the caller borrows the first n nodes
CallTopN ==
  /\ pc = "done"
  /\ \E n \in 0..MaxCount :
       /\ shown' = << top_n(result[1], n) >>
       /\ called' = Call("top_n", n)
  /\ UNCHANGED result
  /\ ResultFrame

\* -------------------------------------------------------- specifications
Closure(t) ==
  \/ TakeEntry(t)
  \/ SetDirTry(t)
  \/ SetDirUnlock(t)
  \/ PushTry(t)
  \/ PushUnlock(t)
  \/ ProgressTry(t)
  \/ Report(t)

Next ==
  \/ Canonicalize
  \/ \E t \in Consumers : Closure(t)
  \/ LoadCounters
  \/ SeedDirs
  \/ Propagate
  \/ BuildResult

\* one scan
Spec == Init /\ [][Next]_vars

\* one scan, whose thread keeps running
FairSpec == Init /\ [][Next]_vars /\ WF_vars(Next)

PairNext == Next \/ Rescan

\* two scans of the same tree
PairSpec == Init /\ [][PairNext]_vars

FlagNext == Next \/ RescanWithFiles

\* two scans of the same tree, with and without the files
FlagSpec == Init /\ [][FlagNext]_vars

ResultNext ==
  \/ Next
  \/ CallSort
  \/ CallFilterByDepth
  \/ CallFilterDirsOnly
  \/ CallTopN

\* one scan, and the caller working on what it returned
ResultSpec == Init /\ [][ResultNext]_vars


\* --------------------------------------------------- what the tree holds
PA == <<"r", "a">>
PC == <<"r", "a", "c">>
PE == <<"r", "a", "e">>
PD == <<"r", "a", "c", "d">>

\* the entries a walk that follows no symlink reaches: every ancestor below
\* the root is a real directory
Reach(p) ==
  /\ root_access = "ok"
  /\ fs[p] # "absent"
  /\ \A q \in Paths : (IsPrefix(q, p) /\ q # p) => fs[q] = "dir"

ReachFiles == { p \in Paths : Reach(p) /\ fs[p] \in {"file", "link"} }

ReachDirs == { p \in Paths : Reach(p) /\ fs[p] \in {"dir", "denied"} }

\* the reachable entries that could not be read: their record, or their
\* listing
Unreadable == { p \in Paths : Reach(p) /\ fs[p] \in {"err", "denied"} }

\* the reachable files inside directory d, at any depth
FilesUnder(d) == { p \in ReachFiles : IsPrefix(d, p) /\ p # d }

\* the sum of the sizes measured for the files of S
RECURSIVE SumOver(_)
SumOver(S) ==
  IF S = {} THEN 0
  ELSE LET p == CHOOSE x \in S : TRUE
       IN  UnwrapOr(measured[p], 0) + SumOver(S \ {p})

Returned == pc = "done"

PostWalk == {"seed", "propagate", "build", "done"}

VisitedFiles == { i.path : i \in { j \in yielded : j.ok /\ ~j.is_dir } }

VisitedDirs == { i.path : i \in { j \in yielded : j.ok /\ j.is_dir } }

ErrItems == { i \in yielded : ~i.ok }

EntriesAt(p) == { k \in DOMAIN entries : entries[k].path = p }

NodesAt(p) == { k \in DOMAIN result[1].nodes : result[1].nodes[k].path = p }

\* ---------------------------------------------------------------- claims

\* C1: after a successful scan, total_size is the sum of the measured sizes
\* of the files the walk reaches; files behind a symlink and entries that
\* gave a read error add nothing.
C1_TotalSize ==
  Returned => result[1].total_size = SumOver(ReachFiles)

\* a returned scan of a tree with a file of size 2 next to a symlinked
\* directory that holds a file
C1_Witness ==
  /\ Returned
  /\ fs[PC] = "link" /\ fs[PD] = "file" /\ fs[PE] = "file"
  /\ measured[PE] = <<2>> /\ measured[PC] = <<1>>
  /\ result[1].total_size = 3

\* C2: after a successful scan, the size of every directory node is the sum
\* of the measured sizes of the reachable files anywhere below it.
C2_DirSizes ==
  Returned =>
    \A k \in DOMAIN result[1].nodes :
      result[1].nodes[k].is_dir =>
        result[1].nodes[k].size = SumOver(FilesUnder(result[1].nodes[k].path))

\* a returned scan with a file two levels below a directory and a second
\* file directly in it
C2_Witness ==
  /\ Returned
  /\ fs[PC] = "dir" /\ measured[PD] = <<2>> /\ measured[PE] = <<1>>
  /\ \E k \in NodesAt(PA) : result[1].nodes[k].size = 3
  /\ \E k \in NodesAt(PC) : result[1].nodes[k].size = 2

\* C3: when the walk is over, every file the closure was given has exactly
\* one entry in the collection, with its measured size, whatever
\* include_files is.
C3_FileEntries ==
  pc \in PostWalk =>
    \A p \in VisitedFiles :
      /\ Cardinality(EntriesAt(p)) = 1
      /\ \A k \in EntriesAt(p) :
           entries[k] = [path |-> p, size |-> measured[p][1],
                         is_dir |-> FALSE, depth |-> Depth(p)]

\* the walk is over, files are not asked for, and two files are collected
C3_Witness ==
  /\ pc = "seed"
  /\ ~include_files
  /\ Cardinality(VisitedFiles) = 2
  /\ Len(FileEntries(entries)) = 2
  /\ \E k \in DOMAIN entries : entries[k].size = 2

\* C4: two scans of the same tree, with any two worker counts and any two
\* orders of the walk, agree on file_count, dir_count, total_size and on the
\* multiset of (path, size) pairs of the nodes.
C4_SameSummary ==
  (Returned /\ prev # <<>>) => Summary(result[1]) = prev[1].summary

\* a second scan has returned, with another worker count, on a tree with
\* two directories and two files
C4_Witness ==
  /\ Returned /\ prev # <<>>
  /\ prev[1].threads = 1 /\ num_threads = MaxThreads
  /\ include_files
  /\ Len(result[1].nodes) = 4
  /\ result[1].total_size = 3

\* C5: every reachable entry is handed to the closure exactly once: the
\* counters count distinct entries, no path is collected twice, no size is
\* added twice, and when the walk is over every reachable entry was visited.
C5_ExactlyOnce ==
  /\ files_scanned = Cardinality(VisitedFiles)
  /\ dirs_scanned = Cardinality(VisitedDirs)
  /\ total_size = SumOver(VisitedFiles)
  /\ \A p \in AllPaths : Cardinality(EntriesAt(p)) <= 1
  /\ pc \in PostWalk =>
       /\ VisitedFiles = ReachFiles
       /\ file_count = Cardinality(ReachFiles)
       /\ root_access = "ok" => VisitedDirs = ReachDirs \cup {Root}

\* the walk is over: the root and two directories, and two files of size 2
C5_Witness ==
  /\ pc = "seed"
  /\ file_count = 2
  /\ dir_count = 3
  /\ scanned_size = 4

AggregatorRuns == pc \in {"seed", "propagate", "build"}

\* C6: the aggregation starts only when the walk is over: no closure is
\* running, the iterator is exhausted, the locals hold the final counters,
\* and from then on neither the collection nor a counter changes.
C6_Barrier ==
  /\ [](pc \in PostWalk =>
          /\ Exhausted
          /\ \A t \in Consumers : tpc[t] = "idle"
          /\ file_count = files_scanned
          /\ dir_count = dirs_scanned
          /\ scanned_size = total_size
          /\ Len(entries) = Cardinality(VisitedFiles) + Cardinality(VisitedDirs \ {Root}))
  /\ [][AggregatorRuns =>
          /\ entries' = entries
          /\ files_scanned' = files_scanned
          /\ dirs_scanned' = dirs_scanned
          /\ total_size' = total_size
          /\ error_count' = error_count]_vars

\* the aggregation has seeded its map from a collection of four entries
C6_Witness ==
  /\ pc = "propagate"
  /\ Len(entries) = 4
  /\ DOMAIN dir_sizes = {PA, PC}

\* C7: error_count is the number of entries that could not be read; such an
\* entry adds nothing to file_count or dir_count and has no node, and every
\* other reachable entry is still counted.
C7_Errors ==
  (Returned /\ root_access = "ok") =>
    /\ result[1].error_count = Cardinality(Unreadable)
    /\ result[1].file_count = Cardinality(ReachFiles)
    /\ result[1].dir_count = Cardinality(ReachDirs \ Unreadable)
    /\ \A p \in Unreadable : NodesAt(p) = {}

\* C8: a root that cannot be resolved or cannot be read makes scan fail
\* before any entry is visited and before any counter moves.
C8_RootFailure ==
  root_access # "ok" =>
    /\ pc \in {"start", "failed"}
    /\ yielded = {}
    /\ files_scanned = 0 /\ dirs_scanned = 0
    /\ total_size = 0 /\ error_count = 0
    /\ result = <<>>

\* C9: with a root that resolves, scan always goes on until it returns a
\* ScanResult: it fails only for the root, and never stops or aborts in the
\* middle.
C9_ScanCompletes ==
  /\ pc = "failed" => root_access = "unresolvable"
  /\ pc # "panicked"
  /\ pc \in {"done", "failed"} \/ ENABLED Next

\* C10: dir_count is the number of directories visited at depth >= 1; the
\* root is never counted, also when the root was not handed out as a
\* directory.
C10_DirCount ==
  Returned =>
    result[1].dir_count =
      Cardinality({ i \in yielded : i.ok /\ i.is_dir /\ i.depth >= 1 })

\* a returned scan that counted the root and two directories below it
C10_Witness ==
  /\ Returned
  /\ dirs_scanned = 3
  /\ result[1].dir_count = 2

\* C11: the scan of a readable root that holds nothing returns all four
\* counters at 0 and no node: the root itself is neither counted nor a node.
C11_EmptyRoot ==
  (Returned /\ root_access = "ok" /\ fs = EmptyTree) =>
    /\ result[1].file_count = 0
    /\ result[1].dir_count = 0
    /\ result[1].total_size = 0
    /\ result[1].error_count = 0
    /\ result[1].nodes = <<>>

\* the scan of an empty root has returned, after the root was handed to the
\* closure and counted in dirs_scanned
C11_Witness ==
  /\ Returned
  /\ root_access = "ok" /\ fs = EmptyTree
  /\ yielded = {OkItem(Root, TRUE)}
  /\ dirs_scanned = 1
  /\ result[1].nodes = <<>>

\* ------------------------------------------------ the caller's methods
Nodes == result[1].nodes

\* the last method called on the result
LastCall(op) == called # <<>> /\ called[1].op = op

NodesBefore == called[1].before.nodes

Sorted(ns) == \A k \in 1..(Len(ns) - 1) : ns[k].size >= ns[k + 1].size

Count(ns, x) == Cardinality({ k \in DOMAIN ns : ns[k] = x })

Range(ns) == { ns[k] : k \in DOMAIN ns }

\* the same nodes, each as often
SameNodes(a, b) == \A x \in Range(a) \cup Range(b) : Count(a, x) = Count(b, x)

\* the nodes of one size, in their order
OfSize(ns, v) == SelectSeq(ns, LAMBDA n : n.size = v)

\* the nodes the scan returned: one per key of dir_sizes, one per file entry
ReturnedNodes ==
  Cardinality(DOMAIN dir_sizes)
    + (IF include_files THEN Len(FileEntries(entries)) ELSE 0)

\* C12: after sort_by_size_desc the nodes are in non-increasing size order,
\* they are the nodes of before, each as often, and the nodes of any one size
\* are in the order they had before.
C12_SortStable ==
  LastCall("sort_by_size_desc") =>
    /\ Sorted(Nodes)
    /\ SameNodes(NodesBefore, Nodes)
    /\ \A x \in Range(NodesBefore) :
         OfSize(Nodes, x.size) = OfSize(NodesBefore, x.size)

\* four nodes that were not in order have been sorted, two of them of one
\* size
C12_Witness ==
  /\ LastCall("sort_by_size_desc")
  /\ Len(Nodes) = 4
  /\ ~Sorted(NodesBefore)
  /\ \E k \in 1..3 : Nodes[k].size = Nodes[k + 1].size /\ Nodes[k].size > 0

\* C13: top_n(k) hands out min(k, len) nodes, in non-increasing size order,
\* which are the first nodes of the sequence, and leaves the result as it
\* was.
C13_TopN ==
  LastCall("top_n") =>
    /\ Len(shown[1]) = (IF called[1].arg <= Len(Nodes) THEN called[1].arg
                                                       ELSE Len(Nodes))
    /\ Sorted(shown[1])
    /\ \A k \in DOMAIN shown[1] : shown[1][k] = Nodes[k]
    /\ called[1].arg >= Len(Nodes) => shown[1] = Nodes
    /\ result[1] = called[1].before

\* C14: after filter_by_depth(d) the nodes are the nodes of before with
\* depth <= d, in their order; a second filter_by_depth with the same or a
\* larger depth changes nothing.
C14_FilterByDepth ==
  /\ [](LastCall("filter_by_depth") =>
          Nodes = SelectSeq(NodesBefore, LAMBDA n : n.depth <= called[1].arg))
  /\ [][(/\ LastCall("filter_by_depth")
         /\ called'[1].op = "filter_by_depth"
         /\ called'[1].arg >= called[1].arg) => result' = result]_vars

\* filter_by_depth(2) was called on a result that an earlier call had taken
\* the file at depth 3 out of, and the file at depth 2 is still there
C14_Witness ==
  /\ LastCall("filter_by_depth")
  /\ called[1].arg = 2
  /\ include_files
  /\ fs[PD] = "file" /\ fs[PE] = "file"
  /\ NodesBefore = Nodes
  /\ NodesAt(PD) = {}
  /\ NodesAt(PE) # {}

\* C15: after filter_dirs_only the nodes are the directory nodes of before,
\* all of them, in their order, and no file node.
C15_FilterDirsOnly ==
  LastCall("filter_dirs_only") =>
    /\ Nodes = SelectSeq(NodesBefore, LAMBDA n : n.is_dir)
    /\ \A k \in DOMAIN Nodes : Nodes[k].is_dir
    /\ \A x \in Range(NodesBefore) : x.is_dir => Count(Nodes, x) = Count(NodesBefore, x)

\* two files were taken out of a result of four nodes
C15_Witness ==
  /\ LastCall("filter_dirs_only")
  /\ Len(NodesBefore) = 4
  /\ Len(Nodes) = 2

\* C16: once the scan has returned, the counters of the result are the ones
\* the scan computed, whatever is called on the result; a call changes no
\* counter, and every node it leaves is a node that was there, unchanged.
C16_ResultFrame ==
  /\ [](Returned =>
          /\ result[1].total_size = scanned_size
          /\ result[1].file_count = file_count
          /\ result[1].dir_count = saturating_sub(dir_count, 1)
          /\ result[1].error_count = error_count)
  /\ [][(pc = "done" /\ pc' = "done") =>
          /\ result'[1].total_size = result[1].total_size
          /\ result'[1].file_count = result[1].file_count
          /\ result'[1].dir_count = result[1].dir_count
          /\ result'[1].error_count = result[1].error_count
          /\ \A k \in DOMAIN result'[1].nodes :
               Count(result[1].nodes, result'[1].nodes[k]) >= 1]_vars

\* a result of two files and two directories was filtered and then
\* sorted: it has fewer nodes and still says two files, two directories
C16_Witness ==
  /\ LastCall("sort_by_size_desc")
  /\ ReturnedNodes = 4
  /\ Len(Nodes) \in 1..3
  /\ result[1].file_count = 2
  /\ result[1].dir_count = 2
  /\ result[1].total_size = 3

\* ------------------------------------------------------------ progress
\* the steps of the closure that produce a progress snapshot
ProgressStep(t) == ProgressTry(t) \/ Report(t)

\* C17: a closure that is at a progress step can always take it (it never
\* waits for a lock), and a progress step, skipped or not, changes no
\* counter, not the collection, and not what scan goes on to return.
C17_Progress ==
  /\ [](\A t \in Consumers :
          tpc[t] \in {"progress", "report"} => ENABLED ProgressStep(t))
  /\ [][\A t \in Consumers :
          ProgressStep(t) =>
            UNCHANGED << files_scanned, dirs_scanned, total_size, error_count,
                         entries, pc, result >>]_vars

\* --------------------------------------------------------------- sizes
\* C18: a visited file for which neither size call answered has size 0: it
\* is counted in file_count, has one file entry of size 0, adds nothing to
\* total_size or to a directory above it, and is no error.
C18_SizeUnavailable ==
  /\ \A p \in unsized :
       /\ p \in VisitedFiles
       /\ measured[p] = <<0>>
  /\ error_count = Cardinality(ErrItems)
  /\ pc \in PostWalk =>
       /\ file_count = Cardinality(VisitedFiles)
       /\ \A p \in unsized :
            /\ Cardinality(EntriesAt(p)) = 1
            /\ \A k \in EntriesAt(p) : entries[k].size = 0 /\ ~entries[k].is_dir
  /\ Returned =>
       /\ result[1].total_size = SumOver(ReachFiles \ unsized)
       /\ \A k \in DOMAIN Nodes :
            Nodes[k].is_dir =>
              Nodes[k].size = SumOver(FilesUnder(Nodes[k].path) \ unsized)

\* a returned scan of two files: one without a size, next to a directory
\* that holds one of size 2
C18_Witness ==
  /\ Returned
  /\ fs[PE] = "file" /\ PE \in unsized
  /\ fs[PD] = "file" /\ measured[PD] = <<2>>
  /\ result[1].file_count = 2
  /\ result[1].error_count = 0
  /\ result[1].total_size = 2
  /\ \E k \in NodesAt(PA) : Nodes[k].size = 2

\* ------------------------------------------------------------ symlinks
Links == { p \in Paths : fs[p] = "link" }

\* C19: nothing below a symlink is handed to the closure, and a symlink
\* adds nothing to total_size or to the size of a directory node.
C19_Symlinks ==
  /\ \A p \in YieldedPaths :
       \A q \in Links : ~(IsPrefix(q, p) /\ q # p)
  /\ Returned =>
       /\ result[1].total_size = SumOver(ReachFiles \ Links)
       /\ \A k \in DOMAIN Nodes :
            Nodes[k].is_dir =>
              Nodes[k].size = SumOver(FilesUnder(Nodes[k].path) \ Links)

\* --------------------------------------------------------- directories
DirNodesOf == { k \in DOMAIN Nodes : Nodes[k].is_dir }

\* C20: in the result as scan returns it, every directory handed to the
\* closure at depth >= 1 has exactly one node, a directory node, of size 0
\* when no file is below it; there are dir_count directory nodes.
C20_EveryDirectory ==
  Returned =>
    /\ \A p \in VisitedDirs \ {Root} :
         /\ Cardinality(NodesAt(p)) = 1
         /\ \A k \in NodesAt(p) :
              /\ Nodes[k].is_dir
              /\ FilesUnder(p) = {} => Nodes[k].size = 0
    /\ Cardinality(DirNodesOf) = result[1].dir_count

\* a returned scan with an empty directory next to a file of size 2
C20_Witness ==
  /\ Returned
  /\ fs[PC] = "dir" /\ fs[PD] = "absent"
  /\ measured[PE] = <<2>>
  /\ \E k \in NodesAt(PC) : Nodes[k].size = 0
  /\ \E k \in NodesAt(PA) : Nodes[k].size = 2
  /\ result[1].dir_count = 2

\* ------------------------------------------------------- the upward walk
\* the sizes of the collected file entries with the indexes K, added up
RECURSIVE EntrySum(_)
EntrySum(K) ==
  IF K = {} THEN 0
  ELSE LET k == CHOOSE x \in K : TRUE
       IN  entries[k].size + EntrySum(K \ {k})

\* the collected file entries below directory d
FileEntriesUnder(d) ==
  { k \in DOMAIN entries :
      ~entries[k].is_dir /\ IsPrefix(d, entries[k].path) /\ entries[k].path # d }

Propagated == pc \in {"build", "done"}

\* C21 as the specification words it: the root has a cumulative entry of
\* its own, which holds total_size once the sizes are propagated.
C21_RootEntry ==
  Propagated =>
    /\ Root \in DOMAIN dir_sizes
    /\ dir_sizes[Root] = scanned_size
    /\ \A d \in DOMAIN dir_sizes : dir_sizes[d] = EntrySum(FileEntriesUnder(d))

\* C21, for the map the code builds (PA is the one path at depth 1):
\* once the sizes are propagated, the entry of every directory in the
\* map holds the size of every file entry below it exactly once and nothing
\* else; the map has an entry for every directory visited below the root
\* and none for the root or above it; the walk ends at the root, so the
\* entries at depth 1 and the files at depth 1 add up to total_size.
C21_Ancestors ==
  Propagated =>
    /\ DOMAIN dir_sizes = VisitedDirs \ {Root}
    /\ \A d \in DOMAIN dir_sizes : dir_sizes[d] = EntrySum(FileEntriesUnder(d))
    /\ scanned_size = EntrySum(FileEntriesUnder(Root))
    /\ scanned_size =
         EntrySum({ k \in FileEntriesUnder(Root) : entries[k].depth = 1 })
           + (IF PA \in DOMAIN dir_sizes THEN dir_sizes[PA] ELSE 0)

\* the sizes of a file at depth 3 and a file at depth 2 are propagated
C21_Witness ==
  /\ pc = "build"
  /\ measured[PD] = <<2>> /\ measured[PE] = <<1>>
  /\ DOMAIN dir_sizes = {PA, PC}
  /\ dir_sizes[PA] = 3
  /\ dir_sizes[PC] = 2
  /\ scanned_size = 3

\* ------------------------------------------------------- include_files
FileNodesOf == { k \in DOMAIN Nodes : ~Nodes[k].is_dir }

FileEntriesOf == { k \in DOMAIN entries : ~entries[k].is_dir }

\* C22: without include_files the result has directory nodes only; with it
\* there is, besides them, exactly one file node per collected file entry,
\* with the path, size and depth of the entry.  A scan of the same tree with
\* the other setting has the same file_count and total_size and the same
\* directories with the same sizes.
C22_IncludeFiles ==
  Returned =>
    /\ ~include_files => FileNodesOf = {}
    /\ include_files =>
         /\ Cardinality(FileNodesOf) = Cardinality(FileEntriesOf)
         /\ \A e \in FileEntriesOf :
              /\ Cardinality(NodesAt(entries[e].path)) = 1
              /\ \A k \in NodesAt(entries[e].path) :
                   Nodes[k] = [path |-> entries[e].path, size |-> entries[e].size,
                               is_dir |-> FALSE, depth |-> entries[e].depth]
    /\ Cardinality(DirNodesOf) = Cardinality(DOMAIN dir_sizes)
    /\ prev # <<>> =>
         /\ result[1].file_count = prev[1].file_count
         /\ result[1].total_size = prev[1].total_size
         /\ DirPairs(Nodes) = prev[1].dirs

\* a scan with the files has returned two file nodes next to the two
\* directory nodes, after a scan of the same tree without them
C22_Witness ==
  /\ Returned
  /\ prev # <<>> /\ ~prev[1].files
  /\ include_files
  /\ Cardinality(FileNodesOf) = 2
  /\ Cardinality(DirNodesOf) = 2
  /\ result[1].total_size = 3
  /\ prev[1].total_size = 3

\* ---------------------------------------------------------------- depth
\* C23: the depth of every node is the number of components of its path
\* below the root, which is at least 1; the depth recomputed for a directory
\* node is the depth the walk reported for it; the root is no node.
C23_Depth ==
  Returned =>
    \A k \in DOMAIN Nodes :
      /\ Nodes[k].path # Root
      /\ IsPrefix(Root, Nodes[k].path)
      /\ Nodes[k].depth = Len(Nodes[k].path) - Len(Root)
      /\ Nodes[k].depth >= 1
      /\ \E i \in yielded : i.ok /\ i.path = Nodes[k].path /\ i.depth = Nodes[k].depth
      /\ \E e \in EntriesAt(Nodes[k].path) : entries[e].depth = Nodes[k].depth

\* a returned scan with a directory node at depth 1, one at depth 2 and a
\* file node at depth 3
C23_Witness ==
  /\ Returned
  /\ include_files
  /\ \E k \in NodesAt(PA) : Nodes[k].is_dir /\ Nodes[k].depth = 1
  /\ \E k \in NodesAt(PC) : Nodes[k].is_dir /\ Nodes[k].depth = 2
  /\ \E k \in NodesAt(PD) : ~Nodes[k].is_dir /\ Nodes[k].depth = 3

\* ---------------------------------------------------------------- locks
\* the positions at which a closure holds or is about to take a lock
InClosure == {"setdir", "setdir_held", "push", "push_held", "progress", "report"}

\* C24: no closure ever waits for a lock that is not released: whenever a
\* closure is at a try_lock or holds a guard it can take its next step;
\* when it makes the blocking current_dir.lock(), holding last_update, the
\* mutex is free; a lock that is held is held by a closure that is about to
\* drop it; and the aggregation finds the entries lock free.
C24_NoDeadlock ==
  /\ \A t \in Consumers :
       tpc[t] \in InClosure \ {"report"} => ENABLED Closure(t)
  /\ \A t \in Consumers : tpc[t] = "report" => lock["current_dir"] = <<>>
  /\ \A t \in Consumers :
       /\ lock["current_dir"] = <<t>> => tpc[t] = "setdir_held"
       /\ lock["last_update"] = <<t>> /\ pc = "walk" => tpc[t] = "report"
       /\ lock["entries"] = <<t>> /\ pc = "walk" => tpc[t] = "push_held"
  /\ pc = "seed" => ENABLED SeedDirs

\* a closure holds last_update and is about to take current_dir with the
\* blocking lock(), after a directory below the root was made current
C24_Witness ==
  /\ tpc["main"] = "report"
  /\ lock["last_update"] = <<"main">>
  /\ current_dir = LongAsciiName
  /\ Len(entries) >= 2

\* ---------------------------------------------------------- monotonicity
\* C25: in the result scan returns, a directory node is at least as large
\* as every directory node and every file node below it, and no node is
\* larger than total_size.
C25_Monotone ==
  Returned =>
    \A a, b \in DOMAIN Nodes :
      /\ Nodes[a].size <= result[1].total_size
      /\ (/\ Nodes[a].is_dir
          /\ IsPrefix(Nodes[a].path, Nodes[b].path)
          /\ Nodes[a].path # Nodes[b].path) => Nodes[a].size >= Nodes[b].size

\* a returned scan: a directory of size 3 above a directory of size 2 and a
\* file of size 1, and a file of size 2 in the inner directory
C25_Witness ==
  /\ Returned
  /\ include_files
  /\ \E k \in NodesAt(PA) : Nodes[k].size = 3
  /\ \E k \in NodesAt(PC) : Nodes[k].is_dir /\ Nodes[k].size = 2
  /\ \E k \in NodesAt(PE) : Nodes[k].size = 1
  /\ \E k \in NodesAt(PD) : Nodes[k].size = 2
  /\ result[1].total_size = 3

=============================================================================
